---- MODULE Spec2Model ----
(***************************************************************************)
(* A model of amfi.py: the AMFI NAV bulletin parser (AMFIParser) and its   *)
(* fixed-point money decoder (to_integer).                                 *)
(*                                                                         *)
(* Text is modelled as a sequence of one-character strings, so that        *)
(* strip(), find(), replace(), split(), the "in" operator and int() are    *)
(* computed character by character as Python computes them.                *)
(*                                                                         *)
(* Python's None is the empty tuple and a present value x is <<x>>, so     *)
(* that an optional field never compares values of different shapes.       *)
(* A Python int is unbounded; it is modelled as a sign and a magnitude of  *)
(* decimal digits without leading zeros, so that no width is imposed.      *)
(***************************************************************************)
EXTENDS Integers, Sequences, FiniteSets, TLC

(***************************************************************************)
(* Bounds of the model                                                     *)
(***************************************************************************)
\* most atoms of a line handed to the line dispatch on its own
MaxAtoms == 3
\* most lines of an input stream when one traversal runs
MaxLen == 3
\* most lines of an input stream when two traversals are interleaved
MaxLenMulti == 2
\* longest arbitrary string handed to to_integer
MaxStrLen == 4
\* most ",ddd" groups of a well-formed number handed to to_integer
MaxGroups == 1
\* most fractional digits of a well-formed number handed to to_integer
MaxFrac == 5
MaxChunks == 2
MaxDelta == 2
MaxTail == 1
MaxFileLines == 2

(***************************************************************************)
(* Python values                                                           *)
(***************************************************************************)
None == <<>>
Some(x) == <<x>>

\* the int with the given sign and decimal digits (most significant first)
RECURSIVE DropLeadingZeros(_)
DropLeadingZeros(ds) ==
    IF ds = <<>> THEN <<>>
    ELSE IF ds[1] = 0 THEN DropLeadingZeros(Tail(ds)) ELSE ds

PyInt(neg, ds) ==
    LET m == DropLeadingZeros(ds)
    IN  [neg |-> neg /\ m # <<>>, mag |-> m]

(***************************************************************************)
(* Python str operations                                                   *)
(***************************************************************************)
Whitespace == {" ", "\t", "\n", "\r", "\f"}

DigitChars == <<"0", "1", "2", "3", "4", "5", "6", "7", "8", "9">>
IsDigit(c) == \E i \in 1..10 : DigitChars[i] = c
DigitVal(c) == (CHOOSE i \in 1..10 : DigitChars[i] = c) - 1

\* str.strip()
strip(s) ==
    IF \A i \in 1..Len(s) : s[i] \in Whitespace THEN <<>>
    ELSE LET first == CHOOSE i \in 1..Len(s) :
                         /\ s[i] \notin Whitespace
                         /\ \A j \in 1..(i-1) : s[j] \in Whitespace
             last  == CHOOSE i \in 1..Len(s) :
                         /\ s[i] \notin Whitespace
                         /\ \A j \in (i+1)..Len(s) : s[j] \in Whitespace
         IN  SubSeq(s, first, last)

\* str.replace(c, "") for a one-character c
replace(s, c) == SelectSeq(s, LAMBDA x : x # c)

\* str.find(c) for a one-character c: 0-based index of the first c, or -1
find(s, c) ==
    IF \A i \in 1..Len(s) : s[i] # c THEN -1
    ELSE (CHOOSE i \in 1..Len(s) :
             s[i] = c /\ \A j \in 1..(i-1) : s[j] # c) - 1

\* pat in s
Contains(s, pat) ==
    \E i \in 0..(Len(s) - Len(pat)) :
        \A j \in 1..Len(pat) : s[i + j] = pat[j]

\* str.split(sep) for a one-character sep: always at least one field
RECURSIVE split(_, _)
split(s, sep) ==
    LET i == find(s, sep)
    IN  IF i = -1 THEN <<s>>
        ELSE <<SubSeq(s, 1, i)>> \o split(SubSeq(s, i + 2, Len(s)), sep)

\* "0" * n ; a count that is zero or negative gives the empty string
Zeroes(n) == IF n > 0 THEN [i \in 1..n |-> "0"] ELSE <<>>

\* int(s): surrounding whitespace is ignored, then an optional sign, then
\* digits, with single underscores allowed between digits; anything else
\* is a ValueError (ok = FALSE)
IntBodyOk(b) ==
    /\ Len(b) > 0
    /\ \A i \in 1..Len(b) : IsDigit(b[i]) \/ b[i] = "_"
    /\ b[1] # "_"
    /\ b[Len(b)] # "_"
    /\ \A i \in 1..(Len(b) - 1) : ~(b[i] = "_" /\ b[i+1] = "_")

int(s) ==
    LET t      == strip(s)
        signed == Len(t) > 0 /\ t[1] \in {"+", "-"}
        body   == IF signed THEN Tail(t) ELSE t
        ds     == replace(body, "_")
    IN  IF IntBodyOk(body)
        THEN [ok |-> TRUE,
              value |-> PyInt(signed /\ t[1] = "-",
                              [i \in 1..Len(ds) |-> DigitVal(ds[i])])]
        ELSE [ok |-> FALSE, value |-> PyInt(FALSE, <<>>)]

(***************************************************************************)
(* AMFIParser.to_integer                                                   *)
(***************************************************************************)
CannotConvert ==
    <<"C", "a", "n", "n", "o", "t", " ", "c", "o", "n", "v", "e", "r", "t",
    " ">>
ToLong ==
    <<" ", "t", "o", " ", "l", "o", "n", "g">>

\* the outcome of a call: a returned value or a raised ValueError
Return(v) == [kind |-> "return", value |-> v, msg |-> <<>>]
Raise(m)  == [kind |-> "raise", value |-> None, msg |-> m]

to_integer(val, raise_exception) ==
    LET v1          == replace(val, ",")
        indexOfDecimal == find(v1, ".")
        v2          == replace(v1, ".")
        zeroesToPad == IF indexOfDecimal = -1
                       THEN 4
                       ELSE 4 - Len(v2) + indexOfDecimal
        v3          == IF zeroesToPad # 0
                       THEN v2 \o Zeroes(zeroesToPad)
                       ELSE v2
        r           == int(v3)
    IN  IF r.ok THEN Return(Some(r.value))
        ELSE IF raise_exception
             THEN Raise(CannotConvert \o v3 \o ToLong)
             ELSE Return(None)

(***************************************************************************)
(* Line classification: is_blank_line, is_header_line, is_record_line      *)
(***************************************************************************)
HeaderMarker ==
    <<"S", "c", "h", "e", "m", "e", " ", "C", "o", "d", "e", ";", "S", "c",
    "h", "e", "m", "e", " ", "N", "a", "m", "e">>
SchemesWord ==
    <<"S", "c", "h", "e", "m", "e", "s">>

\* a mutant without the blank test
is_blank_line_never(l) == FALSE

is_blank_line(l) == strip(l) = <<>>

is_header_line(l) == Contains(l, HeaderMarker)

\* a mutant without the header test
is_record_line_any_semicolon(l) == Contains(l, <<";">>)

is_record_line(l) ==
    IF is_header_line(l) THEN FALSE
    ELSE IF Contains(l, <<";">>) THEN TRUE
    ELSE FALSE

\* a mutant without the header branch
Dispatch_no_header(l) ==
    IF is_record_line(l) THEN "record"
    ELSE IF is_blank_line(l) THEN "blank"
    ELSE IF Contains(l, SchemesWord) THEN "category"
    ELSE "amc"

\* the branch of the if/elif chain of parse() that a line takes
Dispatch(l) ==
    IF is_record_line(l) THEN "record"
    ELSE IF is_header_line(l) THEN "header"
    ELSE IF is_blank_line(l) THEN "blank"
    ELSE IF Contains(l, SchemesWord) THEN "category"
    ELSE "amc"

(***************************************************************************)
(* AMFIParser.to_date: datetime.strptime(val.strip(), '%d-%b-%Y').date()   *)
(***************************************************************************)
UpperChars ==
    <<"A", "B", "C", "D", "E", "F", "G", "H", "I", "J", "K", "L", "M",
    "N", "O", "P", "Q", "R", "S", "T", "U", "V", "W", "X", "Y", "Z">>
LowerChars ==
    <<"a", "b", "c", "d", "e", "f", "g", "h", "i", "j", "k", "l", "m",
    "n", "o", "p", "q", "r", "s", "t", "u", "v", "w", "x", "y", "z">>
lower(s) ==
    [i \in 1..Len(s) |->
        LET k == find(UpperChars, s[i]) IN
        IF k = -1 THEN s[i] ELSE LowerChars[k + 1]]

\* %b: the abbreviated month names, matched without regard to case
MonthNames ==
    << <<"j", "a", "n">>, <<"f", "e", "b">>, <<"m", "a", "r">>,
       <<"a", "p", "r">>, <<"m", "a", "y">>, <<"j", "u", "n">>,
       <<"j", "u", "l">>, <<"a", "u", "g">>, <<"s", "e", "p">>,
       <<"o", "c", "t">>, <<"n", "o", "v">>, <<"d", "e", "c">> >>

\* the value of a short string of digits
RECURSIVE Number(_)
Number(s) ==
    IF s = <<>> THEN 0
    ELSE Number(SubSeq(s, 1, Len(s) - 1)) * 10 + DigitVal(s[Len(s)])

\* %d: 3[0-1] | [1-2]\d | 0[1-9] | [1-9] | " "[1-9]
DayMatches(d) ==
    \/ Len(d) = 2 /\ d[1] = "3" /\ d[2] \in {"0", "1"}
    \/ Len(d) = 2 /\ d[1] \in {"1", "2"} /\ IsDigit(d[2])
    \/ Len(d) = 2 /\ d[1] \in {"0", " "} /\ IsDigit(d[2]) /\ d[2] # "0"
    \/ Len(d) = 1 /\ IsDigit(d[1]) /\ d[1] # "0"

\* %Y: \d\d\d\d
YearMatches(y) == Len(y) = 4 /\ \A i \in 1..4 : IsDigit(y[i])

IsLeap(y) == y % 4 = 0 /\ (y % 100 # 0 \/ y % 400 = 0)
DaysInMonth(y, m) ==
    IF m = 2 THEN (IF IsLeap(y) THEN 29 ELSE 28)
    ELSE IF m \in {4, 6, 9, 11} THEN 30 ELSE 31

NoDate == [year |-> 0, month |-> 0, day |-> 0]

\* a mutant that gives a date that does not parse the value None
to_date_or_none(v) == [ok |-> TRUE, date |-> NoDate]

\* ok = FALSE stands for the ValueError of strptime or of the date itself
to_date(v) ==
    LET parts == split(strip(v), "-")
        month == find(MonthNames, lower(parts[2])) + 1
        fits  == /\ Len(parts) = 3
                 /\ DayMatches(parts[1])
                 /\ month # 0
                 /\ YearMatches(parts[3])
        y     == Number(parts[3])
        m     == month
        d     == Number(replace(parts[1], " "))
    IN  IF fits /\ y >= 1 /\ d <= DaysInMonth(y, m)
        THEN [ok |-> TRUE, date |-> [year |-> y, month |-> m, day |-> d]]
        ELSE [ok |-> FALSE, date |-> NoDate]

(***************************************************************************)
(* AMFIParser.to_record and AMFIParser.extract_mf_details                  *)
(***************************************************************************)
NoRecord ==
    [code |-> <<>>, fund |-> <<>>, isin1 |-> None, isin2 |-> None,
     nav |-> None, repurchase_price |-> None, sale_price |-> None,
     date |-> NoDate]

\* tokens[i+2] = None when the token is empty
Isin(tok) == IF tok = <<>> THEN None ELSE Some(tok)

\* a mutant that builds the record from the first eight tokens
to_record_first_eight(l) ==
    LET tokens == split(l, ";")
        date   == to_date(tokens[8])
    IN  IF Len(tokens) < 8
        THEN [error |-> "IndexError", record |-> NoRecord]
        ELSE IF ~date.ok
        THEN [error |-> "ValueError", record |-> NoRecord]
        ELSE [error |-> "",
              record |->
                [code |-> tokens[1],
                 fund |-> tokens[2],
                 isin1 |-> Isin(tokens[3]),
                 isin2 |-> Isin(tokens[4]),
                 nav |-> to_integer(tokens[5], FALSE).value,
                 repurchase_price |-> to_integer(tokens[6], FALSE).value,
                 sale_price |-> to_integer(tokens[7], FALSE).value,
                 date |-> date.date]]

\* error = "" when a NavRecord is returned, else the exception raised:
\* IndexError from tokens[i+2], tokens[i+4] or tokens[7] when there are
\* fewer than 8 tokens, ValueError from to_date, TypeError from
\* NavRecord(*tokens) when there are more than 8 tokens
to_record(l) ==
    LET tokens == split(l, ";")
        date   == to_date(tokens[8])
    IN  IF Len(tokens) < 8
        THEN [error |-> "IndexError", record |-> NoRecord]
        ELSE IF ~date.ok
        THEN [error |-> "ValueError", record |-> NoRecord]
        ELSE IF Len(tokens) > 8
        THEN [error |-> "TypeError", record |-> NoRecord]
        ELSE [error |-> "",
              record |->
                [code |-> tokens[1],
                 fund |-> tokens[2],
                 isin1 |-> Isin(tokens[3]),
                 isin2 |-> Isin(tokens[4]),
                 nav |-> to_integer(tokens[5], FALSE).value,
                 repurchase_price |-> to_integer(tokens[6], FALSE).value,
                 sale_price |-> to_integer(tokens[7], FALSE).value,
                 date |-> date.date]]

\* a mutant that takes the two context ids in the other order
extract_mf_details_swapped(record, amc_id, category_id) ==
    [code |-> record.code,
     amc_id |-> category_id,
     category_id |-> amc_id,
     name |-> record.fund,
     isin_growth |-> record.isin1,
     isin_dividend_payout |-> record.isin1,
     isin_dividend_reinvestment |-> record.isin2]

extract_mf_details(record, amc_id, category_id) ==
    [code |-> record.code,
     amc_id |-> amc_id,
     category_id |-> category_id,
     name |-> record.fund,
     isin_growth |-> record.isin1,
     isin_dividend_payout |-> record.isin1,
     isin_dividend_reinvestment |-> record.isin2]

(***************************************************************************)
(* The lines of the input streams                                          *)
(***************************************************************************)
L_AMC_A ==
    <<"A", "B", "C", " ", "M", "u", "t", "u", "a", "l", " ", "F", "u", "n",
    "d", "\n">>
L_AMC_A_SP ==
    <<" ", " ", "A", "B", "C", " ", "M", "u", "t", "u", "a", "l", " ", "F",
    "u", "n", "d">>
L_AMC_B ==
    <<"X", "Y", "Z", " ", "M", "u", "t", "u", "a", "l", " ", "F", "u", "n",
    "d", "\n">>
L_CAT_O ==
    <<"O", "p", "e", "n", " ", "E", "n", "d", "e", "d", " ", "S", "c", "h",
    "e", "m", "e", "s", "\n">>
L_CAT_C ==
    <<"C", "l", "o", "s", "e", " ", "E", "n", "d", "e", "d", " ", "S", "c",
    "h", "e", "m", "e", "s", "\n">>
L_HEADER ==
    <<"S", "c", "h", "e", "m", "e", " ", "C", "o", "d", "e", ";", "S", "c",
    "h", "e", "m", "e", " ", "N", "a", "m", "e", ";", "N", "e", "t", " ",
    "A", "s", "s", "e", "t", " ", "V", "a", "l", "u", "e", ";", "D", "a",
    "t", "e", "\n">>
L_BLANK ==
    <<"\n">>
L_SPACES ==
    <<" ", "\t", "\n">>
L_REC_101 ==
    <<"1", "0", "1", ";", "F", "u", "n", "d", " ", "A", ";", ";", ";", "1",
    "0", ".", "0", "0", ";", "1", "0", ".", "0", "5", ";", "9", ".", "9",
    "5", ";", "0", "1", "-", "J", "a", "n", "-", "2", "0", "2", "4", "\n">>
L_REC_101_B ==
    <<"1", "0", "1", ";", "F", "u", "n", "d", " ", "B", ";", "I", "N", "F",
    "1", ";", "I", "N", "F", "2", ";", "N", ".", "A", ".", ";", ";", "1",
    ",", "2", "3", "4", ".", "5", "6", ";", "2", "-", "f", "e", "b", "-",
    "2", "0", "2", "4", "\n">>
L_REC_102 ==
    <<"1", "0", "2", ";", "S", "c", "h", "e", "m", "e", "s", " ", "C", ";",
    "I", "N", "F", "3", ";", ";", "1", ".", "5", ";", "N", ".", "A", ".",
    ";", "0", ";", "2", "9", "-", "F", "e", "b", "-", "2", "0", "2", "4">>
L_BAD_DATE ==
    <<"1", "0", "3", ";", "F", "u", "n", "d", " ", "D", ";", ";", ";", "1",
    ";", "1", ";", "1", ";", "2", "0", "2", "4", "-", "0", "1", "-", "0",
    "1", "\n">>
L_BAD_DAY ==
    <<"1", "0", "3", ";", "F", "u", "n", "d", " ", "D", ";", ";", ";", "1",
    ";", "1", ";", "1", ";", "3", "0", "-", "F", "e", "b", "-", "2", "0",
    "2", "4", "\n">>
L_SHORT ==
    <<"1", "0", "4", ";", "F", "u", "n", "d", " ", "E", ";", ";", ";", "1",
    ";", "1", ";", "1", "\n">>
L_LONG ==
    <<"1", "0", "5", ";", "F", "u", "n", "d", " ", "F", ";", ";", ";", "1",
    ";", "1", ";", "1", ";", "0", "1", "-", "J", "a", "n", "-", "2", "0",
    "2", "4", ";", "\n">>
L_SEMI ==
    <<" ", ";", "\n">>

\* short lines, for the streams of two traversals
L_AMC_P ==
    <<"P", "\n">>
L_AMC_Q ==
    <<"Q">>
L_CAT_S ==
    <<"S", "c", "h", "e", "m", "e", "s", "\n">>
L_REC_1 ==
    <<"1", ";", "F", ";", ";", ";", "1", ";", ";", ";", "1", "-", "J", "a",
    "n", "-", "2", "0", "2", "4">>

AmcLines == {L_AMC_A, L_AMC_A_SP, L_AMC_B}
CategoryLines == {L_CAT_O, L_CAT_C}
GoodRecordLines == {L_REC_101, L_REC_101_B, L_REC_102}
BadRecordLines == {L_BAD_DATE}
SkippedLines == {L_HEADER, L_BLANK}

Lines ==
    AmcLines \cup CategoryLines \cup GoodRecordLines \cup BadRecordLines
        \cup SkippedLines

\* more lines, for the dispatch alone
MoreLines == {L_BAD_DAY, L_SHORT, L_LONG, L_SEMI, L_SPACES}

(***************************************************************************)
(* The inputs of to_integer                                                *)
(***************************************************************************)
IntAlphabet == {"0", "1", "7", ",", ".", "-", "N"}
WfDigits == {"0", "7"}

StringsUpTo(A, n) == UNION {[1..k -> A] : k \in 0..n}
StringsOf(A, lo, hi) == UNION {[1..k -> A] : k \in lo..hi}

\* \d{1,3}(,\d{3})*(\.\d+)? over WfDigits, bounded by MaxGroups and MaxFrac
RECURSIVE CommaGroups(_)
CommaGroups(n) ==
    IF n = 0 THEN {<<>>}
    ELSE {<<>>} \cup
         {<<",">> \o d \o g : d \in [1..3 -> WfDigits],
                              g \in CommaGroups(n - 1)}

WellFormedNumbers ==
    {h \o g \o f : h \in StringsOf(WfDigits, 1, 3),
                   g \in CommaGroups(MaxGroups),
                   f \in {<<>>} \cup
                         {<<".">> \o d : d \in StringsOf(WfDigits, 1, MaxFrac)}}

s_10_5 == <<"1", "0", ".", "5">>
s_1_234_56 == <<"1", ",", "2", "3", "4", ".", "5", "6">>
s_100 == <<"1", "0", "0">>
s_NA == <<"N", ".", "A", ".">>
s_1_23456 == <<"1", ".", "2", "3", "4", "5", "6">>
s_neg_1_5 == <<"-", "1", ".", "5">>

IntExamples == {<<>>, s_10_5, s_1_234_56, s_100, s_NA, s_1_23456, s_neg_1_5}

IntInputs ==
    StringsUpTo(IntAlphabet, MaxStrLen) \cup WellFormedNumbers \cup IntExamples

(***************************************************************************)
(* State                                                                   *)
(***************************************************************************)
VARIABLES
    \* one call of to_integer
    val,                  \* the argument val
    raise_exception,      \* the argument raise_exception
    result,               \* the outcome of the call, NotCalled before it
    \* one line put through the dispatch of parse()
    line,                 \* the line
    branch,               \* the branch it took, "" before the dispatch
    \* the fields of each AMFIParser instance
    constructed,          \* the instances that __init__ has run for
    mutual_funds,         \* self.mutual_funds: code -> MutualFund
    amc_by_name,          \* self.amc_by_name: name -> Amc
    amc_id_seq,           \* self.amc_id_seq
    category_by_name,     \* self.category_by_name: name -> Category
    category_id_seq,      \* self.category_id_seq
    \* each generator returned by a call of parse(stream)
    status,               \* "none", "created", "running", "suspended",
                          \* "done", "failed" or "closed"
    self,                 \* the instance whose parse() made it (0: none)
    stream,               \* the argument stream, a sequence of lines
    pos,                  \* how many lines the for loop has taken from it
    pulls,                \* how many times next() was called on it
    current_amc_id,       \* the local current_amc_id
    current_category_id,  \* the local current_category_id
    emitted,              \* the records yielded to the consumer so far
    error,                \* the exception that ended it ("" if none)
    \* history
    seen,                 \* per instance, for every line its traversals
                          \* took: <<the branch taken, the line trimmed>>
    \* one run of the entry point (__main__)
    data_lines,           \* how many data lines the input holds
    tail_lines,           \* how many lines follow its last data line
    main_pc,              \* "unused", "for", "body", "tables" or "end"
    taken,                \* the records chunker has taken from the parser
    drained,              \* the parser was asked for a record and had none
    chunk,                \* the length of the chunk the loop body holds
    record_chunks,        \* how many chunks islice has passed on
    nav_history,          \* how many rows were inserted into nav_history
    tables,               \* what the mappings held when the other tables
                          \* were written (None before that)
    \* one traversal of gen_combined_nav_lines(directory)
    filelist,             \* directory -> the names of the files in it
    walk,                 \* the directories os.walk has still to visit
    files,                \* the sorted names of the current directory that
                          \* are still to be yielded, with the directory
    source,               \* the open file and the lines read from it
    combined              \* the lines yielded: <<path, line number>>

pure_vars == <<val, raise_exception, result, line, branch>>
instance_vars ==
    <<mutual_funds, amc_by_name, amc_id_seq, category_by_name,
      category_id_seq>>
generator_vars ==
    <<status, self, stream, pos, pulls, current_amc_id,
      current_category_id, emitted, error>>
main_vars ==
    <<data_lines, tail_lines, main_pc, taken, drained, chunk, record_chunks,
      nav_history, tables>>
files_vars == <<filelist, walk, files, source, combined>>
run_vars == <<main_vars, files_vars>>
vars ==
    <<pure_vars, constructed, instance_vars, generator_vars, seen, run_vars>>

NotCalled == [kind |-> "not called", value |-> None, msg |-> <<>>]

\* the instances and generators of the state
Instances == DOMAIN amc_id_seq
Generators == DOMAIN status

\* d[k] = v
Put(d, k, v) == [x \in DOMAIN d \cup {k} |-> IF x = k THEN v ELSE d[x]]

Amc(id, name) == [id |-> id, name |-> name]
Category(id, category) == [id |-> id, category |-> category]

(***************************************************************************)
(* AMFIParser.__init__ and AMFIParser.parse                                *)
(***************************************************************************)
\* the instances I, of which those of C are made, and the generators G,
\* none of which is made
InitParser(I, C, G) ==
    /\ constructed = C
    /\ mutual_funds = [p \in I |-> <<>>]
    /\ amc_by_name = [p \in I |-> <<>>]
    /\ amc_id_seq = [p \in I |-> 0]
    /\ category_by_name = [p \in I |-> <<>>]
    /\ category_id_seq = [p \in I |-> 0]
    /\ status = [g \in G |-> "none"]
    /\ self = [g \in G |-> 0]
    /\ stream = [g \in G |-> <<>>]
    /\ pos = [g \in G |-> 0]
    /\ pulls = [g \in G |-> 0]
    /\ current_amc_id = [g \in G |-> None]
    /\ current_category_id = [g \in G |-> None]
    /\ emitted = [g \in G |-> <<>>]
    /\ error = [g \in G |-> ""]
    /\ seen = [p \in I |-> <<>>]

\* no generator is executing: control is with the caller
Idle == \A g \in Generators : status[g] # "running"

\* AMFIParser(): __init__ sets the five fields of a new instance.
\* Instances are numbered in the order they are made.
Construct(p) ==
    /\ Idle
    /\ p \notin constructed
    /\ \A q \in Instances : q < p => q \in constructed
    /\ constructed' = constructed \cup {p}
    /\ mutual_funds' = [mutual_funds EXCEPT ![p] = <<>>]
    /\ amc_by_name' = [amc_by_name EXCEPT ![p] = <<>>]
    /\ amc_id_seq' = [amc_id_seq EXCEPT ![p] = 0]
    /\ category_by_name' = [category_by_name EXCEPT ![p] = <<>>]
    /\ category_id_seq' = [category_id_seq EXCEPT ![p] = 0]
    /\ UNCHANGED run_vars
    /\ UNCHANGED <<pure_vars, generator_vars, seen>>

\* parser.parse(s) for a stream s of S: makes a generator; none of its
\* body runs yet.  The locals are None from here on, as the first two
\* statements of the body set them before anything reads them.
\* Generators are numbered in the order they are made, and instances that
\* are made together in the order parse() is first called on them.
Parse(g, p, S) ==
    /\ Idle
    /\ p \in constructed
    /\ status[g] = "none"
    /\ \A h \in Generators : h < g => status[h] # "none"
    /\ \A q \in Instances : q < p => \E h \in Generators : self[h] = q
    /\ status' = [status EXCEPT ![g] = "created"]
    /\ self' = [self EXCEPT ![g] = p]
    /\ \E s \in S : stream' = [stream EXCEPT ![g] = s]
    /\ pos' = [pos EXCEPT ![g] = 0]
    /\ current_amc_id' = [current_amc_id EXCEPT ![g] = None]
    /\ current_category_id' = [current_category_id EXCEPT ![g] = None]
    /\ UNCHANGED run_vars
    /\ UNCHANGED <<pure_vars, constructed, instance_vars, pulls, emitted,
                   error, seen>>

\* next(generator): the body runs on from where it was suspended
Pull(g) ==
    /\ Idle
    /\ status[g] \in {"created", "suspended"}
    /\ status' = [status EXCEPT ![g] = "running"]
    /\ pulls' = [pulls EXCEPT ![g] = @ + 1]
    /\ UNCHANGED run_vars
    /\ UNCHANGED <<pure_vars, constructed, instance_vars, self, stream, pos,
                   current_amc_id, current_category_id, emitted, error,
                   seen>>

\* generator.close(), or the generator is dropped: nothing of the body runs
Close(g) ==
    /\ Idle
    /\ status[g] \in {"created", "suspended"}
    /\ status' = [status EXCEPT ![g] = "closed"]
    /\ UNCHANGED run_vars
    /\ UNCHANGED <<pure_vars, constructed, instance_vars, self, stream, pos,
                   pulls, current_amc_id, current_category_id, emitted,
                   error, seen>>

\* "for line in stream": whether a line is left, and the line
HasLine(g) == status[g] = "running" /\ pos[g] < Len(stream[g])

\* a mutant that reads the first line again
Line_first(g) == stream[g][1]

Line(g) == stream[g][pos[g] + 1]

\* the for loop takes the line, which goes down the branch b
Take(g, b) ==
    /\ pos' = [pos EXCEPT ![g] = @ + 1]
    /\ seen' =
          [seen EXCEPT ![self[g]] = Append(@, <<b, strip(Line(g))>>)]

\* the stream is exhausted: the generator returns (StopIteration)
StepExhausted(g) ==
    /\ status[g] = "running"
    /\ pos[g] = Len(stream[g])
    /\ status' = [status EXCEPT ![g] = "done"]
    /\ UNCHANGED run_vars
    /\ UNCHANGED <<pure_vars, constructed, instance_vars, self, stream, pos,
                   pulls, current_amc_id, current_category_id, emitted,
                   error, seen>>

\* a mutant that keeps the fund already held for the code
Upsert_keep_first(funds, mf) ==
    IF mf.code \in DOMAIN funds THEN funds ELSE Put(funds, mf.code, mf)

\* self.mutual_funds[mf.code] = mf
Upsert(funds, mf) == Put(funds, mf.code, mf)

\* a mutant that does not stop at the yield
AfterYield_runs_on == "running"

\* what the generator does after "yield record"
AfterYield == "suspended"

\* a record line that to_record accepts: upsert the fund, yield the record
StepRecord(g) ==
    /\ HasLine(g)
    /\ Dispatch(Line(g)) = "record"
    /\ \E r \in {to_record(Line(g))} :
           /\ r.error = ""
           /\ mutual_funds' =
                 [mutual_funds EXCEPT
                     ![self[g]] =
                         Upsert(@, extract_mf_details(r.record,
                                       current_amc_id[g],
                                       current_category_id[g]))]
           /\ emitted' = [emitted EXCEPT ![g] = Append(@, r.record)]
    /\ Take(g, "record")
    /\ status' = [status EXCEPT ![g] = AfterYield]
    /\ UNCHANGED run_vars
    /\ UNCHANGED <<pure_vars, constructed, amc_by_name, amc_id_seq,
                   category_by_name, category_id_seq, self, stream, pulls,
                   current_amc_id, current_category_id, error>>

\* a record line that to_record rejects: the exception leaves the
\* generator, which is finished
StepRecordError(g) ==
    /\ HasLine(g)
    /\ Dispatch(Line(g)) = "record"
    /\ \E r \in {to_record(Line(g))} :
           /\ r.error # ""
           /\ error' = [error EXCEPT ![g] = r.error]
    /\ Take(g, "record")
    /\ status' = [status EXCEPT ![g] = "failed"]
    /\ UNCHANGED run_vars
    /\ UNCHANGED <<pure_vars, constructed, instance_vars, self, stream,
                   pulls, current_amc_id, current_category_id, emitted>>

\* elif self.is_header_line(line): continue
StepHeader(g) ==
    /\ HasLine(g)
    /\ Dispatch(Line(g)) = "header"
    /\ Take(g, "header")
    /\ UNCHANGED run_vars
    /\ UNCHANGED <<pure_vars, constructed, instance_vars, status, self,
                   stream, pulls, current_amc_id, current_category_id,
                   emitted, error>>

\* elif self.is_blank_line(line): continue
StepBlank(g) ==
    /\ HasLine(g)
    /\ Dispatch(Line(g)) = "blank"
    /\ Take(g, "blank")
    /\ UNCHANGED run_vars
    /\ UNCHANGED <<pure_vars, constructed, instance_vars, status, self,
                   stream, pulls, current_amc_id, current_category_id,
                   emitted, error>>

\* if category in self.category_by_name
CategoryKnown(p, category) == category \in DOMAIN category_by_name[p]

\* self.category_id_seq += 1
\* a mutant that numbers the categories with the counter of the AMCs
NextCategoryId_after_amc(p) == amc_id_seq[p] + 1

NextCategoryId(p) == category_id_seq[p] + 1

\* elif 'Schemes' in line
StepCategory(g) ==
    /\ HasLine(g)
    /\ Dispatch(Line(g)) = "category"
    /\ LET p        == self[g]
           category == strip(Line(g))
       IN  IF CategoryKnown(p, category)
           THEN /\ current_category_id' =
                      [current_category_id EXCEPT
                          ![g] = Some(category_by_name[p][category].id)]
                /\ UNCHANGED <<category_id_seq, category_by_name>>
           ELSE /\ category_id_seq' =
                      [category_id_seq EXCEPT ![p] = NextCategoryId(p)]
                /\ current_category_id' =
                      [current_category_id EXCEPT
                          ![g] = Some(NextCategoryId(p))]
                /\ category_by_name' =
                      [category_by_name EXCEPT
                          ![p] = Put(@, category,
                                     Category(NextCategoryId(p), category))]
    /\ Take(g, "category")
    /\ UNCHANGED run_vars
    /\ UNCHANGED <<pure_vars, constructed, mutual_funds, amc_by_name,
                   amc_id_seq, status, self, stream, pulls, current_amc_id,
                   emitted, error>>

\* a mutant that never finds the name
AmcKnown_never(p, amc) == FALSE

\* if amc in self.amc_by_name
AmcKnown(p, amc) == amc \in DOMAIN amc_by_name[p]

\* a mutant whose counter is shared by all instances
NextAmcId_global(p) ==
    LET m == CHOOSE q \in Instances :
                 \A r \in Instances : amc_id_seq[r] <= amc_id_seq[q]
    IN  amc_id_seq[m] + 1

\* self.amc_id_seq += 1
NextAmcId(p) == amc_id_seq[p] + 1

\* else (any other line names an AMC)
StepAmc(g) ==
    /\ HasLine(g)
    /\ Dispatch(Line(g)) = "amc"
    /\ LET p   == self[g]
           amc == strip(Line(g))
       IN  IF AmcKnown(p, amc)
           THEN /\ current_amc_id' =
                      [current_amc_id EXCEPT
                          ![g] = Some(amc_by_name[p][amc].id)]
                /\ UNCHANGED <<amc_id_seq, amc_by_name>>
           ELSE /\ amc_id_seq' = [amc_id_seq EXCEPT ![p] = NextAmcId(p)]
                /\ current_amc_id' =
                      [current_amc_id EXCEPT ![g] = Some(NextAmcId(p))]
                /\ amc_by_name' =
                      [amc_by_name EXCEPT
                          ![p] = Put(@, amc, Amc(NextAmcId(p), amc))]
    /\ Take(g, "amc")
    /\ UNCHANGED run_vars
    /\ UNCHANGED <<pure_vars, constructed, mutual_funds, category_by_name,
                   category_id_seq, status, self, stream, pulls,
                   current_category_id, emitted, error>>

(***************************************************************************)
(* One instance, one traversal of a stream of at most MaxLen lines         *)
(***************************************************************************)
Streams == UNION {[1..k -> Lines] : k \in 0..MaxLen}

IntUnused ==
    /\ val = <<>>
    /\ raise_exception = FALSE
    /\ result = NotCalled

DispatchUnused ==
    /\ line = <<>>
    /\ branch = ""

MainUnused ==
    /\ data_lines = 0
    /\ tail_lines = 0
    /\ main_pc = "unused"
    /\ taken = 0
    /\ drained = FALSE
    /\ chunk = 0
    /\ record_chunks = 0
    /\ nav_history = 0
    /\ tables = None

FilesUnused ==
    /\ filelist = <<>>
    /\ walk = <<>>
    /\ files = <<>>
    /\ source = None
    /\ combined = <<>>

ParserUnused == InitParser({}, {}, {})

Init ==
    /\ IntUnused /\ DispatchUnused /\ MainUnused /\ FilesUnused
    /\ InitParser({1}, {}, {1})

Next ==
    \/ \E p \in Instances : Construct(p)
    \/ \E g \in Generators, p \in Instances : Parse(g, p, Streams)
    \/ \E g \in Generators : Pull(g)
    \/ \E g \in Generators : Close(g)
    \/ \E g \in Generators : StepExhausted(g)
    \/ \E g \in Generators : StepRecord(g)
    \/ \E g \in Generators : StepRecordError(g)
    \/ \E g \in Generators : StepHeader(g)
    \/ \E g \in Generators : StepBlank(g)
    \/ \E g \in Generators : StepCategory(g)
    \/ \E g \in Generators : StepAmc(g)

Spec == Init /\ [][Next]_vars

(***************************************************************************)
(* Two instances, both made, and two traversals interleaved pull by pull.   *)
(* The streams hold announcements and well-formed records only, so the     *)
(* steps for skipped and rejected lines are never enabled and are left out.*)
(***************************************************************************)
LinesMulti == {L_AMC_P, L_AMC_Q, L_CAT_S, L_REC_1}
StreamsMulti == UNION {[1..k -> LinesMulti] : k \in 0..MaxLenMulti}

InitMulti ==
    /\ IntUnused /\ DispatchUnused /\ MainUnused /\ FilesUnused
    /\ InitParser({1, 2}, {1, 2}, {1, 2})

NextMulti ==
    \/ \E g \in Generators, p \in Instances : Parse(g, p, StreamsMulti)
    \/ \E g \in Generators : Pull(g)
    \/ \E g \in Generators : StepExhausted(g)
    \/ \E g \in Generators : StepRecord(g)
    \/ \E g \in Generators : StepCategory(g)
    \/ \E g \in Generators : StepAmc(g)

SpecMulti == InitMulti /\ [][NextMulti]_vars

(***************************************************************************)
(* One instance, one traversal of a stream that holds data lines which     *)
(* to_record rejects.  No line is a header or blank, so those steps are    *)
(* left out.                                                               *)
(***************************************************************************)
LinesBad ==
    {L_AMC_A, L_CAT_O, L_REC_101, L_REC_101_B, L_BAD_DATE, L_BAD_DAY,
     L_SHORT, L_LONG, L_SEMI}
StreamsBad == UNION {[1..k -> LinesBad] : k \in 0..MaxLen}

NextBad ==
    \/ \E p \in Instances : Construct(p)
    \/ \E g \in Generators, p \in Instances : Parse(g, p, StreamsBad)
    \/ \E g \in Generators : Pull(g)
    \/ \E g \in Generators : StepExhausted(g)
    \/ \E g \in Generators : StepRecord(g)
    \/ \E g \in Generators : StepRecordError(g)
    \/ \E g \in Generators : StepCategory(g)
    \/ \E g \in Generators : StepAmc(g)

SpecBad == Init /\ [][NextBad]_vars

(***************************************************************************)
(* Calling to_integer on one input                                         *)
(***************************************************************************)
InitInt ==
    /\ val \in IntInputs
    /\ raise_exception \in BOOLEAN
    /\ result = NotCalled
    /\ DispatchUnused /\ MainUnused /\ FilesUnused
    /\ ParserUnused

CallToInteger ==
    /\ result = NotCalled
    /\ result' = to_integer(val, raise_exception)
    /\ UNCHANGED <<val, raise_exception, line, branch, constructed,
                   instance_vars, generator_vars, seen, run_vars>>

NextInt == CallToInteger

SpecInt == InitInt /\ [][NextInt]_vars

(***************************************************************************)
(* Putting one line through the dispatch of parse()                        *)
(***************************************************************************)
SchemeCode ==
    <<"S", "c", "h", "e", "m", "e", " ", "C", "o", "d", "e">>

\* the pieces a line is put together from
Atoms ==
    {<<" ">>, <<"\t">>, <<"\n">>, <<";">>, <<"x">>, SchemeCode, HeaderMarker,
     SchemesWord}

RECURSIVE Concat(_)
Concat(ss) == IF ss = <<>> THEN <<>> ELSE ss[1] \o Concat(Tail(ss))

DispatchInputs ==
    Lines \cup MoreLines
        \cup {Concat(a) : a \in UNION {[1..k -> Atoms] : k \in 0..MaxAtoms}}

InitDispatch ==
    /\ line \in DispatchInputs
    /\ branch = ""
    /\ IntUnused /\ MainUnused /\ FilesUnused
    /\ ParserUnused

DispatchLine ==
    /\ branch = ""
    /\ branch' = Dispatch(line)
    /\ UNCHANGED <<val, raise_exception, result, line, constructed,
                   instance_vars, generator_vars, seen, run_vars>>

NextDispatch == DispatchLine

SpecDispatch == InitDispatch /\ [][NextDispatch]_vars

(***************************************************************************)
(* One run of the entry point.  The parser is taken as what parse() was    *)
(* found to be: a source of one record per data line, which reads the      *)
(* lines up to a data line when it is asked for a record and the lines     *)
(* after the last data line when it is asked for a record and has none.    *)
(* Lists of records are held as their lengths.                             *)
(***************************************************************************)
\* record_chunks = chunker(records, 10000)
ChunkSize == 10000
\* record_chunks = islice(record_chunks, 2)
ChunkLimit == 2

\* inputs with about a whole number of chunks of data lines
RecordCounts ==
    {n \in {c * ChunkSize + d :
               c \in 0..MaxChunks, d \in (0 - MaxDelta)..MaxDelta} : n >= 0}

InitMain ==
    /\ IntUnused /\ DispatchUnused /\ FilesUnused /\ ParserUnused
    /\ data_lines \in RecordCounts
    /\ tail_lines \in 0..MaxTail
    /\ main_pc = "for"
    /\ taken = 0
    /\ drained = FALSE
    /\ chunk = 0
    /\ record_chunks = 0
    /\ nav_history = 0
    /\ tables = None

\* len(list(islice(i, n))) for an iterator i that has `left` items left
islice(left, n) == IF left < n THEN left ELSE n

\* the for loop asks for a chunk and islice asks chunker for it:
\* piece = list(islice(i, n)), yielded if it is not empty.  A piece
\* shorter than n means the parser was asked for a record it did not have.
chunker ==
    /\ main_pc = "for"
    /\ record_chunks < ChunkLimit
    /\ \E piece \in {islice(data_lines - taken, ChunkSize)} :
           /\ taken' = taken + piece
           /\ drained' = (drained \/ piece < ChunkSize)
           /\ chunk' = piece
           /\ IF piece > 0
              THEN /\ record_chunks' = record_chunks + 1
                   /\ main_pc' = "body"
              ELSE /\ record_chunks' = record_chunks
                   /\ main_pc' = "tables"
    /\ UNCHANGED <<data_lines, tail_lines, nav_history, tables>>
    /\ UNCHANGED <<pure_vars, constructed, instance_vars, generator_vars,
                   seen, files_vars>>

\* the for loop asks for a chunk and islice has passed on ChunkLimit of
\* them: it stops, and chunker is not resumed
IsliceStops ==
    /\ main_pc = "for"
    /\ record_chunks = ChunkLimit
    /\ main_pc' = "tables"
    /\ UNCHANGED <<data_lines, tail_lines, taken, drained, chunk,
                   record_chunks, nav_history, tables>>
    /\ UNCHANGED <<pure_vars, constructed, instance_vars, generator_vars,
                   seen, files_vars>>

\* for record in chunk: INSERT INTO nav_history
InsertChunk ==
    /\ main_pc = "body"
    /\ nav_history' = nav_history + chunk
    /\ main_pc' = "for"
    /\ UNCHANGED <<data_lines, tail_lines, taken, drained, chunk,
                   record_chunks, tables>>
    /\ UNCHANGED <<pure_vars, constructed, instance_vars, generator_vars,
                   seen, files_vars>>

\* the three loops over parser.mutual_funds, parser.amc_by_name and
\* parser.category_by_name, which hold what the lines read so far put there
WriteTables ==
    /\ main_pc = "tables"
    /\ tables' =
          Some([data_lines |-> taken,
                tail_lines |-> IF drained THEN tail_lines ELSE 0])
    /\ main_pc' = "end"
    /\ UNCHANGED <<data_lines, tail_lines, taken, drained, chunk,
                   record_chunks, nav_history>>
    /\ UNCHANGED <<pure_vars, constructed, instance_vars, generator_vars,
                   seen, files_vars>>

NextMain ==
    \/ chunker
    \/ IsliceStops
    \/ InsertChunk
    \/ WriteTables

SpecMain == InitMain /\ [][NextMain]_vars

(***************************************************************************)
(* One traversal of gen_combined_nav_lines("data").  A name is a tuple of  *)
(* characters, a path the pair <<directory, name>>.                        *)
(***************************************************************************)
\* the characters of the names, in the order of their code points
CodePoints == <<".", "0", "1", "2", "a", "c", "n", "s", "t", "v", "x">>
ord(c) == CHOOSE i \in 1..Len(CodePoints) : CodePoints[i] = c

\* a < b for two str
RECURSIVE StrLess(_, _)
StrLess(a, b) ==
    IF b = <<>> THEN FALSE
    ELSE IF a = <<>> THEN TRUE
    ELSE IF a[1] = b[1] THEN StrLess(Tail(a), Tail(b))
    ELSE ord(a[1]) < ord(b[1])

\* list.sort() of a list of distinct names, held as a set
RECURSIVE sort(_)
sort(S) ==
    IF S = {} THEN <<>>
    ELSE LET first == CHOOSE a \in S : \A b \in S \ {a} : StrLess(a, b)
         IN  <<first>> \o sort(S \ {first})

\* fnmatch.filter(filelist, "nav*.txt")
Pattern == [prefix |-> <<"n", "a", "v">>, suffix |-> <<".", "t", "x", "t">>]
fnmatch(name) ==
    /\ Len(name) >= Len(Pattern.prefix) + Len(Pattern.suffix)
    /\ SubSeq(name, 1, Len(Pattern.prefix)) = Pattern.prefix
    /\ SubSeq(name, Len(name) - Len(Pattern.suffix) + 1, Len(name))
          = Pattern.suffix

nav1_txt == <<"n", "a", "v", "1", ".", "t", "x", "t">>
nav2_txt == <<"n", "a", "v", "2", ".", "t", "x", "t">>
nav1_csv == <<"n", "a", "v", "1", ".", "c", "s", "v">>
FileNames == {nav1_txt, nav2_txt, nav1_csv}

\* the directory tree: data, with the sub-directories a and b
Directories == {"data", "data/a", "data/b"}
dirlist(top) == IF top = "data" THEN {"data/a", "data/b"} ELSE {}

\* the orders in which the entries of a directory can be listed
Orders(S) ==
    {o \in [1..Cardinality(S) -> S] :
        \A i, j \in 1..Cardinality(S) : i # j => o[i] # o[j]}

InitFiles ==
    /\ IntUnused /\ DispatchUnused /\ MainUnused /\ ParserUnused
    /\ filelist \in [Directories -> SUBSET FileNames]
    /\ walk = <<"data">>
    /\ files = <<>>
    /\ source = None
    /\ combined = <<>>

\* for path, dirlist, filelist in os.walk(root): the next directory, its
\* sub-directories to follow in the order the system lists them;
\* files = fnmatch.filter(filelist, "nav*.txt"); files.sort()
NextDirectory ==
    /\ source = None
    /\ files = <<>>
    /\ walk # <<>>
    /\ \E order \in Orders(dirlist(Head(walk))) :
           walk' = order \o Tail(walk)
    /\ \E sorted \in {sort({f \in filelist[Head(walk)] : fnmatch(f)})} :
           files' = [i \in 1..Len(sorted) |-> <<Head(walk), sorted[i]>>]
    /\ UNCHANGED <<filelist, source, combined>>
    /\ UNCHANGED <<pure_vars, constructed, instance_vars, generator_vars,
                   seen, main_vars>>

\* yield os.path.join(path, f), and _gen_open opens it
OpenFile ==
    /\ source = None
    /\ files # <<>>
    /\ source' = Some([name |-> Head(files), read |-> 0])
    /\ files' = Tail(files)
    /\ UNCHANGED <<filelist, walk, combined>>
    /\ UNCHANGED <<pure_vars, constructed, instance_vars, generator_vars,
                   seen, main_vars>>

\* for item in s: yield item
YieldLine ==
    /\ source # None
    /\ source[1].read < MaxFileLines
    /\ combined' = Append(combined, <<source[1].name, source[1].read + 1>>)
    /\ source' = Some([source[1] EXCEPT !.read = @ + 1])
    /\ UNCHANGED <<filelist, walk, files>>
    /\ UNCHANGED <<pure_vars, constructed, instance_vars, generator_vars,
                   seen, main_vars>>

\* the file has no line left: on to the next source
EndOfFile ==
    /\ source # None
    /\ source[1].read = MaxFileLines
    /\ source' = None
    /\ UNCHANGED <<filelist, walk, files, combined>>
    /\ UNCHANGED <<pure_vars, constructed, instance_vars, generator_vars,
                   seen, main_vars>>

NextFiles ==
    \/ NextDirectory
    \/ OpenFile
    \/ YieldLine
    \/ EndOfFile

SpecFiles == InitFiles /\ [][NextFiles]_vars

(***************************************************************************)
(* Properties of the line dispatch (checked under SpecDispatch)            *)
(***************************************************************************)
\* the category of a line by the stated precedence: blank, then header
\* marker, then ';', then the category word in the trimmed line, else AMC
Kind(l) ==
    LET t == strip(l)
    IN  IF t = <<>> THEN "blank"
        ELSE IF Contains(l, HeaderMarker) THEN "header"
        ELSE IF Contains(l, <<";">>) THEN "record"
        ELSE IF Contains(t, SchemesWord) THEN "category"
        ELSE "amc"

\* C7: the dispatch of parse() (record test first, then header, blank,
\* 'Schemes', else AMC) puts every line in the category the stated
\* precedence gives it; a line holding the header marker is never a record
\* and a whitespace-only line is always blank.
C7_DispatchIsPrecedence ==
    branch # "" =>
        /\ branch = Kind(line)
        /\ Contains(line, HeaderMarker) => branch = "header"
        /\ (\A i \in 1..Len(line) : line[i] \in Whitespace)
              => branch = "blank"

\* a header line, which holds ';', went down the header branch
C7_Witness ==
    /\ branch = "header"
    /\ Contains(line, <<";">>)
    /\ line # HeaderMarker

(***************************************************************************)
(* Properties of one traversal (checked under Spec)                        *)
(***************************************************************************)
\* the lines of a sequence with their kinds and the names they announce:
\* <<position, kind, trimmed text>>
KindsOf(lines) ==
    {<<i, Kind(lines[i]), strip(lines[i])>> : i \in 1..Len(lines)}

\* the positions, up to n, of the lines of kind k
Positions(K, n, k) == {t[1] : t \in {u \in K : u[1] <= n /\ u[2] = k}}

\* the names that the lines of kind k up to position n announce
NamesIn(K, n, k) == {t[3] : t \in {u \in K : u[1] <= n /\ u[2] = k}}

\* the last of a non-empty set of positions
Last(P) == CHOOSE i \in P : \A j \in P : j <= i

\* the field k of a data line
Field(l, k) == split(l, ";")[k]

\* the id that by_name holds for the last line of kind k before position
\* i, if there is one
IdBefore(K, i, k, by_name) ==
    LET P == {u \in K : u[1] < i /\ u[2] = k}
    IN  IF P = {} THEN None
        ELSE Some(by_name[(CHOOSE t \in P : \A u \in P : u[1] <= t[1])[3]].id)

\* the id of the most recent AMC announcement before position i, if any
AmcBefore(g, K, i) == IdBefore(K, i, "amc", amc_by_name[self[g]])

\* the id of the most recent category announcement before position i
CategoryBefore(g, K, i) ==
    IdBefore(K, i, "category", category_by_name[self[g]])

\* the lines that the for loop of g has taken
Taken(g) == SubSeq(stream[g], 1, pos[g])

\* the generator has just yielded the record of the line at pos[g]
Yielded(g) == status[g] = "suspended"

\* the fund held for the code of the line at position i
FundOf(g, i) == mutual_funds[self[g]][Field(stream[g][i], 1)]

\* C1: the MutualFund built for a data line carries the id of the most
\* recent AMC announcement before it and the id of the most recent category
\* announcement before it, whatever lies between, and None where no such
\* announcement precedes it.
C1_FundContext ==
    \A g \in Generators :
        Yielded(g) =>
            LET K  == KindsOf(Taken(g))
                mf == FundOf(g, pos[g])
            IN  /\ mf.amc_id = AmcBefore(g, K, pos[g])
                /\ mf.category_id = CategoryBefore(g, K, pos[g])

\* a data line after an AMC announcement and then a category announcement
C1_Witness ==
    \E g \in Generators :
        /\ Yielded(g)
        /\ pos[g] = 3
        /\ Kind(stream[g][1]) = "amc"
        /\ Kind(stream[g][2]) = "category"
        /\ FundOf(g, 3).amc_id = Some(1)
        /\ FundOf(g, 3).category_id = Some(1)

\* the step takes, for generator g, a line of kind k whose text an earlier
\* line of the stream has
Repeats(g, k) ==
    /\ status[g] = "running"
    /\ pos'[g] = pos[g] + 1
    /\ Kind(Line(g)) = k
    /\ \E i \in 1..pos[g] : stream[g][i] = Line(g)

\* C2: the second of two AMC announcements with the same text resolves to
\* the id of the first, advances no counter and adds no entry; likewise for
\* category announcements.
C2_SameTextSameId ==
    [][\A g \in Generators :
        /\ Repeats(g, "amc") =>
              /\ current_amc_id'[g] =
                    Some(amc_by_name[self[g]][strip(Line(g))].id)
              /\ amc_id_seq' = amc_id_seq
              /\ amc_by_name' = amc_by_name
        /\ Repeats(g, "category") =>
              /\ current_category_id'[g] =
                    Some(category_by_name[self[g]][strip(Line(g))].id)
              /\ category_id_seq' = category_id_seq
              /\ category_by_name' = category_by_name]_vars

\* an AMC announcement was taken a second time, after another AMC, and the
\* context is back at the id of the first
C2_Witness ==
    \E g \in Generators :
        /\ pos[g] = 3
        /\ Kind(stream[g][1]) = "amc"
        /\ Kind(stream[g][2]) = "amc"
        /\ stream[g][2] # stream[g][1]
        /\ stream[g][3] = stream[g][1]
        /\ current_amc_id[g] = Some(1)
        /\ amc_id_seq[self[g]] = 2

\* the positions up to n of the data lines that were tokenized
DataPositions(g, K, n) ==
    Positions(K, n, "record")
        \ (IF status[g] = "failed" THEN {pos[g]} ELSE {})

\* an empty field is None
Optional(tok) == IF tok = <<>> THEN None ELSE Some(tok)

\* C4: when several data lines carry the same scheme code, the fund mapping
\* holds one MutualFund for the code, built from the last of them (its
\* name, its isins, the context current at that line), and one record was
\* emitted for each of the lines.
C4_LastWriteWins ==
    \A g \in Generators :
        status[g] # "none" =>
        LET K == KindsOf(Taken(g))
            D == DataPositions(g, K, pos[g])
            F == {<<i, split(stream[g][i], ";")>> : i \in D}
        IN  /\ Len(emitted[g]) = Cardinality(D)
            /\ DOMAIN mutual_funds[self[g]] = {t[2][1] : t \in F}
            /\ \A t \in F :
                  LET same == {u \in F : u[2][1] = t[2][1]}
                      last == CHOOSE u \in same : \A v \in same : v[1] <= u[1]
                      l    == last[2]
                      mf   == mutual_funds[self[g]][t[2][1]]
                  IN  /\ mf.code = l[1]
                      /\ mf.name = l[2]
                      /\ mf.isin_growth = Optional(l[3])
                      /\ mf.isin_dividend_reinvestment = Optional(l[4])
                      /\ mf.isin_dividend_payout
                            \in {Optional(l[3]), Optional(l[4])}
                      /\ mf.amc_id = AmcBefore(g, K, last[1])
                      /\ mf.category_id = CategoryBefore(g, K, last[1])
                      /\ Cardinality({n \in 1..Len(emitted[g]) :
                            emitted[g][n].code = l[1]})
                            = Cardinality(same)

\* the pass is over; two data lines had the same code and different names,
\* with an AMC announcement between them
C4_Witness ==
    \E g \in Generators :
        /\ status[g] = "done"
        /\ pos[g] = 3
        /\ Kind(stream[g][1]) = "record"
        /\ Kind(stream[g][2]) = "amc"
        /\ Kind(stream[g][3]) = "record"
        /\ Field(stream[g][1], 1) = Field(stream[g][3], 1)
        /\ Field(stream[g][1], 2) # Field(stream[g][3], 2)
        /\ Len(emitted[g]) = 2
        /\ FundOf(g, 1).name = Field(stream[g][3], 2)
        /\ FundOf(g, 1).amc_id = Some(1)

\* the mappings hold what the first n lines of the stream put there
Reflects(g, K, n) ==
    /\ DOMAIN mutual_funds[self[g]]
          = {Field(stream[g][i], 1) : i \in DataPositions(g, K, n)}
    /\ DOMAIN amc_by_name[self[g]] = NamesIn(K, n, "amc")
    /\ DOMAIN category_by_name[self[g]] = NamesIn(K, n, "category")
    /\ amc_id_seq[self[g]] = Cardinality(NamesIn(K, n, "amc"))
    /\ category_id_seq[self[g]] = Cardinality(NamesIn(K, n, "category"))

\* C5: a pull takes from the line source the lines up to and including the
\* next data line, or all of them when there is none, and none beyond; so
\* when a pull returns a record the mappings hold what the lines up to and
\* including its line put there, and abandoning the generator leaves them.
C5_PullTakesOneRecord ==
    /\ [](\A g \in Generators :
            LET K == KindsOf(Taken(g))
                R == Positions(K, pos[g], "record")
            IN  /\ status[g] = "created" => pos[g] = 0 /\ pulls[g] = 0
                /\ Yielded(g) =>
                      /\ pos[g] \in R
                      /\ Cardinality(R) = pulls[g]
                      /\ Len(emitted[g]) = pulls[g]
                /\ status[g] = "done" =>
                      /\ pos[g] = Len(stream[g])
                      /\ Cardinality(R) = pulls[g] - 1
                      /\ Len(emitted[g]) = pulls[g] - 1
                /\ status[g] \in {"created", "suspended", "done", "closed"}
                      => Reflects(g, K, pos[g]))
    /\ [][\A g \in Generators :
            (status[g] # "closed" /\ status'[g] = "closed") =>
                UNCHANGED <<instance_vars, pos, emitted>>]_vars

\* a pull returned the record of the second line, lines follow it, and the
\* generator was then abandoned
C5_Witness ==
    \E g \in Generators :
        /\ status[g] = "closed"
        /\ Len(stream[g]) = 3
        /\ pos[g] = 2
        /\ Kind(stream[g][1]) = "amc"
        /\ Kind(stream[g][2]) = "record"
        /\ Kind(stream[g][3]) = "category"
        /\ Len(emitted[g]) = 1
        /\ pulls[g] = 1
        /\ category_by_name[self[g]] = <<>>

\* the traversal of a stream without data lines is over
NoDataDone(g) ==
    /\ status[g] \in {"done", "failed"}
    /\ Positions(KindsOf(stream[g]), Len(stream[g]), "record") = {}

\* C6 as stated: a stream without data lines yields no record and empty
\* fund, AMC and category mappings, without error.
C6_AllEmpty ==
    \A g \in Generators :
        NoDataDone(g) =>
            /\ status[g] = "done"
            /\ emitted[g] = <<>>
            /\ mutual_funds[self[g]] = <<>>
            /\ amc_by_name[self[g]] = <<>>
            /\ category_by_name[self[g]] = <<>>

\* C6 as amended: a stream without data lines yields no record and an
\* empty fund mapping, without error; the AMC and category mappings hold
\* one entry for each distinct announcement of the stream, so they are
\* empty when the stream has no announcement either.
C6_NoRecordNoFund ==
    \A g \in Generators :
        NoDataDone(g) =>
            /\ status[g] = "done"
            /\ error[g] = ""
            /\ emitted[g] = <<>>
            /\ mutual_funds[self[g]] = <<>>
            /\ DOMAIN amc_by_name[self[g]]
                  = NamesIn(KindsOf(stream[g]), Len(stream[g]), "amc")
            /\ DOMAIN category_by_name[self[g]]
                  = NamesIn(KindsOf(stream[g]), Len(stream[g]), "category")

\* a stream of a header, a blank line and an AMC announcement was traversed
C6_Witness ==
    \E g \in Generators :
        /\ NoDataDone(g)
        /\ Len(stream[g]) = 3
        /\ Positions(KindsOf(stream[g]), 3, "header") # {}
        /\ Positions(KindsOf(stream[g]), 3, "blank") # {}
        /\ Cardinality(DOMAIN amc_by_name[self[g]]) = 1

(***************************************************************************)
(* Properties of two instances (checked under SpecMulti)                   *)
(***************************************************************************)
\* the lines that the traversals of instance p took, in the order they
\* took them: <<position, branch, name>>
SeenKinds(p) ==
    {<<i, seen[p][i][1], seen[p][i][2]>> : i \in 1..Len(seen[p])}

\* the line t of K announces its name for the first time
FirstIn(K, t) == t[3] \notin NamesIn(K, t[1] - 1, t[2])

\* C3: in each instance the n-th distinct AMC name has id n and the n-th
\* distinct category name has id n of a counter of its own, whatever the
\* other instance has seen (so each counter counts the names of its own
\* kind only); a counter never decreases, no step moves both counters or
\* both mappings, and an entry once made is never changed or removed.
C3_InstanceCounters ==
    /\ [](\A p \in Instances :
            LET K == SeenKinds(p)
                n == Len(seen[p])
                A == NamesIn(K, n, "amc")
                C == NamesIn(K, n, "category")
            IN  /\ DOMAIN amc_by_name[p] = A
                /\ amc_id_seq[p] = Cardinality(A)
                /\ DOMAIN category_by_name[p] = C
                /\ category_id_seq[p] = Cardinality(C)
                /\ \A t \in K :
                      /\ (t[2] = "amc" /\ FirstIn(K, t)) =>
                            amc_by_name[p][t[3]]
                               = Amc(Cardinality(NamesIn(K, t[1], "amc")),
                                     t[3])
                      /\ (t[2] = "category" /\ FirstIn(K, t)) =>
                            category_by_name[p][t[3]]
                               = Category(
                                    Cardinality(
                                        NamesIn(K, t[1], "category")),
                                    t[3]))
    /\ [][\A p \in Instances :
            /\ amc_id_seq'[p] >= amc_id_seq[p]
            /\ category_id_seq'[p] >= category_id_seq[p]
            /\ amc_id_seq'[p] = amc_id_seq[p]
                  \/ category_id_seq'[p] = category_id_seq[p]
            /\ amc_by_name'[p] = amc_by_name[p]
                  \/ category_by_name'[p] = category_by_name[p]
            /\ \A a \in DOMAIN amc_by_name[p] :
                  /\ a \in DOMAIN amc_by_name'[p]
                  /\ amc_by_name'[p][a] = amc_by_name[p][a]
            /\ \A c \in DOMAIN category_by_name[p] :
                  /\ c \in DOMAIN category_by_name'[p]
                  /\ category_by_name'[p][c] = category_by_name[p][c]]_vars

\* the first instance gave a name the id 2; the second instance, which met
\* that name first, gave it the id 1, and its first category the id 1
C3_Witness ==
    \E a \in DOMAIN amc_by_name[1] \cap DOMAIN amc_by_name[2] :
        /\ amc_by_name[1][a].id = 2
        /\ amc_by_name[2][a].id = 1
        /\ amc_id_seq[2] = 1
        /\ category_id_seq[2] = 1

(***************************************************************************)
(* Properties of to_integer (checked under SpecInt)                        *)
(***************************************************************************)
AllDigits(s) == \A i \in 1..Len(s) : IsDigit(s[i])
DigitsOf(s) == [i \in 1..Len(s) |-> DigitVal(s[i])]
Min(a, b) == IF a < b THEN a ELSE b
Called == result # NotCalled

\* the integer part and the fractional part of a decimal string
IntPart(s) == IF find(s, ".") = -1 THEN s ELSE SubSeq(s, 1, find(s, "."))
FracPart(s) ==
    IF find(s, ".") = -1 THEN <<>> ELSE SubSeq(s, find(s, ".") + 2, Len(s))
DotCount(s) == Len(SelectSeq(s, LAMBDA c : c = "."))

\* s matches \d{1,3}(,\d{3})*(\.\d+)?
MatchesMoney(s) ==
    LET groups == split(IntPart(s), ",")
    IN  /\ DotCount(s) <= 1
        /\ Len(groups[1]) \in 1..3
        /\ \A i \in 1..Len(groups) : AllDigits(groups[i])
        /\ \A i \in 2..Len(groups) : Len(groups[i]) = 3
        /\ DotCount(s) = 1 => (Len(FracPart(s)) >= 1 /\ AllDigits(FracPart(s)))

\* the magnitude plus one
RECURSIVE Incr(_)
Incr(m) ==
    IF m = <<>> THEN <<1>>
    ELSE IF m[Len(m)] < 9 THEN [m EXCEPT ![Len(m)] = @ + 1]
         ELSE Incr(SubSeq(m, 1, Len(m) - 1)) \o <<0>>

\* the integers r with |r / 10^4 - u| < 10^-4 for the unsigned decimal
\* string u (digits, separators, at most one point), negated when neg:
\* u * 10^4 when u has at most four fractional digits, else u * 10^4 cut
\* after the fourth fractional digit, or that plus one when digits were cut
Scaled(neg, u) ==
    LET ip   == replace(IntPart(u), ",")
        fp   == replace(FracPart(u), ",")
        k    == Min(Len(fp), 4)
        kept == DigitsOf(ip) \o DigitsOf(SubSeq(fp, 1, k))
                    \o [i \in 1..(4 - k) |-> 0]
        cut  == SubSeq(fp, 5, Len(fp))
    IN  {PyInt(neg, kept)} \cup
        IF \A i \in 1..Len(cut) : cut[i] = "0" THEN {}
        ELSE {PyInt(neg, Incr(kept))}

\* C8: for every string matching \d{1,3}(,\d{3})*(\.\d+)? to_integer returns
\* an integer that, divided by 10^4, equals the value of the string up to
\* four fractional digits.
C8_ScaledValue ==
    (Called /\ MatchesMoney(val)) =>
        /\ result.kind = "return"
        /\ result.value # None
        /\ result.value[1] \in Scaled(FALSE, val)

\* a string that holds a character no number holds (a letter)
HasLetter(s) ==
    \E i \in 1..Len(s) :
        ~IsDigit(s[i]) /\ s[i] \notin {",", ".", "-", "+", "_"} \cup Whitespace

NoValueOrError ==
    IF raise_exception THEN result.kind = "raise" ELSE result = Return(None)

\* C9: to_integer of the empty string or of a non-numeric string such as
\* "N.A." yields None in non-strict mode and raises in strict mode; it never
\* returns an integer.
C9_EmptyOrNonNumeric ==
    (Called /\ (val = <<>> \/ HasLetter(val))) => NoValueOrError

\* strings built from digits, ',', '.' and '-'
NumericChars(s) ==
    \A i \in 1..Len(s) : IsDigit(s[i]) \/ s[i] \in {",", ".", "-"}

\* the most lenient reading of "well-formed number with at most one decimal
\* point": an optional leading '-', then digits and separators with at
\* least one digit and at most one point
Unsigned(s) == IF s # <<>> /\ s[1] = "-" THEN Tail(s) ELSE s
WellFormed(s) ==
    /\ NumericChars(s)
    /\ find(Unsigned(s), "-") = -1
    /\ DotCount(s) <= 1
    /\ \E i \in 1..Len(s) : IsDigit(s[i])

\* C10: for a non-empty string built from digits, ',', '.' and '-' that is not a
\* well-formed number, to_integer returns None (or raises in strict mode)
\* and never an integer; for a well-formed negative number it returns the
\* correctly scaled negative value or None, never another integer.
C10_FailsCleanly ==
    Called =>
        /\ (val # <<>> /\ NumericChars(val) /\ ~WellFormed(val))
             => NoValueOrError
        /\ (WellFormed(val) /\ val[1] = "-" /\ result.kind = "return"
               /\ result.value # None)
             => result.value[1] \in Scaled(TRUE, Unsigned(val))

\* C11: in strict mode the message of the error raised for an unparseable
\* value holds the input string exactly as it was passed in.
C11_MessageNamesInput ==
    (Called /\ raise_exception /\ result.kind = "raise")
        => Contains(result.msg, val)

(***************************************************************************)
(* Properties of the records of one traversal (checked under Spec)         *)
(***************************************************************************)
\* the generator has just been through the data line at pos[g]: it yielded
\* its record or the exception of to_record ended it
AtDataLine(g) ==
    /\ status[g] \in {"suspended", "failed"}
    /\ Kind(stream[g][pos[g]]) = "record"

\* a money field that is not a number, the empty field included
Unparseable(tok) == ~WellFormed(tok)

\* C12: a data line with 8 fields and a valid date is never aborted by its
\* money fields: its record is emitted and its fund upserted, a money field
\* that is not a number is None, each money field is decoded by itself, and
\* an empty isin field is None.
C12_MoneyNeverAborts ==
    \A g \in Generators :
        AtDataLine(g) =>
            LET tok == split(stream[g][pos[g]], ";")
                r   == emitted[g][Len(emitted[g])]
            IN  (Len(tok) = 8 /\ to_date(tok[8]).ok) =>
                    /\ status[g] = "suspended"
                    /\ r.code = tok[1]
                    /\ r.fund = tok[2]
                    /\ tok[1] \in DOMAIN mutual_funds[self[g]]
                    /\ mutual_funds[self[g]][tok[1]].name = tok[2]
                    /\ r.nav = to_integer(tok[5], FALSE).value
                    /\ r.repurchase_price = to_integer(tok[6], FALSE).value
                    /\ r.sale_price = to_integer(tok[7], FALSE).value
                    /\ Unparseable(tok[5]) => r.nav = None
                    /\ Unparseable(tok[6]) => r.repurchase_price = None
                    /\ Unparseable(tok[7]) => r.sale_price = None
                    /\ r.isin1 = Optional(tok[3])
                    /\ r.isin2 = Optional(tok[4])

(***************************************************************************)
(* Properties of rejected data lines (checked under SpecBad)               *)
(***************************************************************************)
\* the step takes, for generator g, a data line
TakesDataLine(g) ==
    /\ status[g] = "running"
    /\ pos'[g] = pos[g] + 1
    /\ Kind(Line(g)) = "record"

\* the step ends generator g with an exception and changes nothing else
FailsUnchanged(g) ==
    /\ status'[g] = "failed"
    /\ error'[g] # ""
    /\ emitted' = emitted
    /\ UNCHANGED instance_vars

\* C13: a data line that splits on ';' into fewer or more than 8 fields
\* makes the pull that reaches it fail with an exception: no record is
\* emitted for it and no fund is upserted for it.
C13_WrongFieldCount ==
    [][\A g \in Generators :
          (TakesDataLine(g) /\ Len(split(Line(g), ";")) # 8)
              => FailsUnchanged(g)]_vars

\* a line with a trailing ';' ended the traversal after one record
C13_Witness ==
    \E g \in Generators :
        /\ status[g] = "failed"
        /\ error[g] = "TypeError"
        /\ Len(split(stream[g][pos[g]], ";")) = 9
        /\ Len(emitted[g]) = 1
        /\ Cardinality(DOMAIN mutual_funds[self[g]]) = 1

\* v is a date in the format day-abbreviated month-4 digit year
DateParses(v) ==
    LET parts == split(strip(v), "-")
    IN  /\ Len(parts) = 3
        /\ Len(parts[1]) \in 1..2
        /\ AllDigits(parts[1])
        /\ find(MonthNames, lower(parts[2])) # -1
        /\ Len(parts[3]) = 4
        /\ AllDigits(parts[3])
        /\ Number(parts[3]) >= 1
        /\ Number(parts[1]) \in
              1..DaysInMonth(Number(parts[3]),
                             find(MonthNames, lower(parts[2])) + 1)

\* the date field of a data line with 8 fields or more does not parse
BadDate(l) ==
    LET tok == split(l, ";") IN Len(tok) >= 8 /\ ~DateParses(tok[8])

\* C14: a data line whose date field does not parse ends the traversal with
\* a ValueError at the pull that reaches it and changes no mapping and no
\* counter; every record of an earlier data line was delivered by an
\* earlier pull.
C14_BadDateIsFatal ==
    /\ [][\A g \in Generators :
            (TakesDataLine(g) /\ BadDate(Line(g)))
                => (FailsUnchanged(g) /\ error'[g] = "ValueError")]_vars
    /\ [](\A g \in Generators :
            status[g] = "failed" =>
                LET K == KindsOf(Taken(g))
                IN  /\ Len(emitted[g]) = pulls[g] - 1
                    /\ Positions(K, pos[g], "record")
                          = DataPositions(g, K, pos[g]) \cup {pos[g]}
                    /\ Cardinality(DataPositions(g, K, pos[g]))
                          = Len(emitted[g])
                    /\ Reflects(g, K, pos[g]))

\* a line with a date that does not parse ended the traversal at the second
\* pull, after an AMC announcement and a data line
C14_Witness ==
    \E g \in Generators :
        /\ status[g] = "failed"
        /\ error[g] = "ValueError"
        /\ pos[g] = 3
        /\ BadDate(stream[g][3])
        /\ pulls[g] = 2
        /\ Len(emitted[g]) = 1
        /\ amc_id_seq[self[g]] = 1

(***************************************************************************)
(* Properties of skipped lines (checked under Spec)                        *)
(***************************************************************************)
\* C17: a blank line or a header line changes nothing and emits nothing:
\* the step that takes it leaves the mappings, both counters, the current
\* AMC and category and the emitted records as they were, and the generator
\* goes on to the next line without yielding.
C17_SkippedLinesChangeNothing ==
    [][\A g \in Generators :
          (/\ status[g] = "running"
           /\ pos'[g] = pos[g] + 1
           /\ Kind(Line(g)) \in {"blank", "header"})
              => /\ status'[g] = "running"
                 /\ UNCHANGED instance_vars
                 /\ UNCHANGED <<current_amc_id, current_category_id>>
                 /\ UNCHANGED <<emitted, error, pulls>>]_vars

\* a blank or header line was skipped after an AMC announcement and a record
C17_Witness ==
    \E g \in Generators :
        /\ status[g] = "running"
        /\ pos[g] = 3
        /\ Kind(stream[g][3]) \in {"blank", "header"}
        /\ current_amc_id[g] # None
        /\ Len(emitted[g]) = 1

(***************************************************************************)
(* Properties of the mappings of an instance (checked under SpecMulti)     *)
(***************************************************************************)
\* the ids of the entries of a mapping
Ids(by_name) == {by_name[k].id : k \in DOMAIN by_name}

\* C18: in every reachable state, however the traversals of an instance are
\* interleaved, the ids in amc_by_name are exactly 1..amc_id_seq, one entry
\* per id, and each entry is stored under the key equal to its own name;
\* the same holds for category_by_name and category_id_seq.
C18_IdsAreDense ==
    \A p \in Instances :
        /\ Ids(amc_by_name[p]) = 1..amc_id_seq[p]
        /\ Cardinality(DOMAIN amc_by_name[p]) = amc_id_seq[p]
        /\ \A a \in DOMAIN amc_by_name[p] : amc_by_name[p][a].name = a
        /\ Ids(category_by_name[p]) = 1..category_id_seq[p]
        /\ Cardinality(DOMAIN category_by_name[p]) = category_id_seq[p]
        /\ \A c \in DOMAIN category_by_name[p] :
              category_by_name[p][c].category = c

\* two traversals of one instance are under way at once, and the instance
\* holds two AMCs and one category
C18_Witness ==
    \E p \in Instances, g, h \in Generators :
        /\ g # h
        /\ self[g] = p /\ self[h] = p
        /\ status[g] = "suspended" /\ status[h] = "running"
        /\ pos[h] = 2
        /\ amc_id_seq[p] = 2
        /\ category_id_seq[p] = 1

\* C19: in every reachable state each fund of an instance refers to entries
\* of that instance: its amc_id is None or the id of an entry of
\* amc_by_name, and its category_id is None or the id of an entry of
\* category_by_name.
C19_FundsReferToEntries ==
    \A p \in Instances :
        \A code \in DOMAIN mutual_funds[p] :
            LET mf == mutual_funds[p][code]
            IN  /\ mf.amc_id = None
                   \/ \E a \in DOMAIN amc_by_name[p] :
                         mf.amc_id = Some(amc_by_name[p][a].id)
                /\ mf.category_id = None
                   \/ \E c \in DOMAIN category_by_name[p] :
                         mf.category_id = Some(category_by_name[p][c].id)

\* a fund refers to the second AMC of its instance and to no category,
\* while the instance holds a category
C19_Witness ==
    \E p \in Instances :
        \E code \in DOMAIN mutual_funds[p] :
            /\ mutual_funds[p][code].amc_id = Some(2)
            /\ mutual_funds[p][code].category_id = None
            /\ category_id_seq[p] = 1

(***************************************************************************)
(* Properties of a drained traversal (checked under Spec)                  *)
(***************************************************************************)
\* the line splits into 8 fields, the last of them a date
Tokenizes(l) ==
    LET tok == split(l, ";") IN Len(tok) = 8 /\ DateParses(tok[8])

\* the k-th smallest member of a set of positions
Nth(R, k) == CHOOSE i \in R : Cardinality({j \in R : j <= i}) = k

\* C20: for a stream in which every data line splits into 8 fields with a
\* date that parses, the traversal never fails; the records emitted are, in
\* stream order, one for each data line taken; the codes of the fund
\* mapping are the codes of the emitted records; and every step of a
\* running generator takes the next line of the stream or, with no line
\* left, returns, so that a traversal of n lines ends within n + 1 steps,
\* having taken every line.
C20_DrainEmitsEveryDataLine ==
    /\ [](\A g \in Generators :
            status[g] # "none" =>
                LET K == KindsOf(Taken(g))
                    R == Positions(K, pos[g], "record")
                IN  (\A i \in R : Tokenizes(stream[g][i])) =>
                        /\ status[g] # "failed"
                        /\ Len(emitted[g]) = Cardinality(R)
                        /\ \A k \in 1..Len(emitted[g]) :
                              LET tok == split(stream[g][Nth(R, k)], ";")
                              IN  /\ emitted[g][k].code = tok[1]
                                  /\ emitted[g][k].fund = tok[2]
                        /\ DOMAIN mutual_funds[self[g]]
                              = {emitted[g][k].code :
                                    k \in 1..Len(emitted[g])}
                        /\ pos[g] <= Len(stream[g])
                        /\ status[g] = "done" => pos[g] = Len(stream[g]))
    /\ [][\A g \in Generators :
            (/\ status[g] = "running"
             /\ <<status[g], pos[g]>>' # <<status[g], pos[g]>>)
                => \/ pos[g] < Len(stream[g]) /\ pos'[g] = pos[g] + 1
                   \/ /\ pos[g] = Len(stream[g])
                      /\ pos'[g] = pos[g]
                      /\ status'[g] = "done"]_vars

\* three data lines, two of them with one code, were drained: three records
\* and two funds
C20_Witness ==
    \E g \in Generators :
        /\ status[g] = "done"
        /\ pos[g] = 3
        /\ \A i \in 1..3 :
              Kind(stream[g][i]) = "record" /\ Tokenizes(stream[g][i])
        /\ Len(emitted[g]) = 3
        /\ Cardinality(DOMAIN mutual_funds[self[g]]) = 2

(***************************************************************************)
(* Properties of the run of the entry point (checked under SpecMain)       *)
(***************************************************************************)
\* C15: when the run has written its tables, every record of the input was
\* taken from the parser and written to nav_history, and the fund, AMC and
\* category tables were written from mappings that held what every line of
\* the input put there.
C15_RunDrainsInput ==
    main_pc = "end" =>
        /\ taken = data_lines
        /\ nav_history = data_lines
        /\ tables =
              Some([data_lines |-> data_lines, tail_lines |-> tail_lines])

(***************************************************************************)
(* Properties of the combined line stream (checked under SpecFiles)        *)
(***************************************************************************)
\* C16: the combined stream presents the matched files in the order of
\* their names over all directories: no line of a file with a smaller name
\* comes after a line of a file with a larger name; the lines of a file
\* are contiguous and in their order.
C16_FilesInNameOrder ==
    \A i, j \in 1..Len(combined) :
        i < j =>
            /\ ~StrLess(combined[j][1][2], combined[i][1][2])
            /\ combined[i][1] = combined[j][1] =>
                  /\ combined[i][2] < combined[j][2]
                  /\ \A k \in i..j : combined[k][1] = combined[i][1]

====
